---- MODULE Spec2Model ----
(***************************************************************************)
(* Clapmaker: the lookahead scheduling engine (js/audio-engine.js), the    *)
(* application glue that drives it (js/main.js) and the parts of the       *)
(* offset sampler (js/distributions.js) the scheduler reads.               *)
(*                                                                         *)
(* Time is the audio clock (audioCtx.currentTime) in integer milliseconds. *)
(* A handler is one atomic action: JavaScript runs a task, and the         *)
(* microtasks it queues, to completion before the next timer or UI event.  *)
(***************************************************************************)
EXTENDS Integers, Sequences, FiniteSets, TLC

\* ------------------------------------------------------------------------
\* Program constants
\* ------------------------------------------------------------------------
\* constants.js (README: "25ms interval, 100ms lookahead")
LOOKAHEAD_MS == 100
SCHEDULE_INTERVAL_MS == 25
\* start(): nextBeatTime = currentTime + 0.05
LeadInMs == 50
\* scheduleBeat(): clapTime < currentTime - 0.1
LateToleranceMs == 100
\* synthesizer.js: const HISTO_BINS = 40
HISTO_BINS == 40

\* ------------------------------------------------------------------------
\* Bounds of the model
\* ------------------------------------------------------------------------
\* this.maxEvents is 5000 in the constructor; the log cap is scaled down so
\* that a run fills and trims the log.
maxEvents == 3
\* LOD_CLAPPER_THRESHOLD (200) and LOD_SAMPLE_COUNT (40), scaled with the
\* crowd sizes below.
LOD_CLAPPER_THRESHOLD == 2
LOD_SAMPLE_COUNT == 1
\* the largest crowd the clappers slider is moved to
MaxClappers == 3
\* the audio clock stops at MaxClockTicks * SCHEDULE_INTERVAL_MS
MaxClockTicks == 10
\* setInterval registrations that may be alive at once
MaxTimers == 2
\* Math.random() returns k / RandSteps, k in 0 .. RandSteps-1
RandSteps == 2
\* a run lasts MaxRunTicks timer periods (2.0 s)
MaxRunTicks == 80
\* samplePersons followed step by step: the largest pool, the largest
\* count asked for, and Math.random() = g / SampleGrid, g in 0 .. SampleGrid-1
MaxPool == 4
MaxSampleCount == 3
SampleGrid == 4
\* regeneratePersons followed step by step: the largest count asked for
MaxRegen == 2
\* a call of a distribution: the Math.random() draws it may consume, and
\* the largest value the Marsaglia-Tsang loop of gammaSample returns
MaxDraws == 3
MaxGamma == 2
\* the visualization followed over a run of at most MaxLogged logged events
MaxLogged == 6

\* ------------------------------------------------------------------------
\* Input domains
\* ------------------------------------------------------------------------
\* a null timer handle, and the null getBuffer returns
NULL == 0
NoBuffer == [kind |-> "none", variant |-> 0]
BPMs == {120, 240}
Spreads == {0, 200}
Distributions == {"uniform"}
Sources == {"synth", "queen"}
ClapperCounts == 1 .. MaxClappers
Randoms == 0 .. (RandSteps - 1)
\* between two handlers the clock moves by two timer periods, or by a stall
\* of ten
ClockSteps == {2 * SCHEDULE_INTERVAL_MS, 10 * SCHEDULE_INTERVAL_MS}
MaxClock == MaxClockTicks * SCHEDULE_INTERVAL_MS
\* draws used by regeneratePersons for the three fields of a person
PersonDraws == {0}
\* the tempi and crowd sizes of a run, and the end of its clock
RunBPMs == {40, 120, 240}
RunClapperCounts == {1, 2}
MaxRunMs == MaxRunTicks * SCHEDULE_INTERVAL_MS

VARIABLES
    clock,            \* audioCtx.currentTime, ms
    ctxAvailable,     \* window.AudioContext || window.webkitAudioContext exists
    audioCtx,         \* engine.audioCtx # null
    timers,           \* ids of the setInterval registrations that are alive
    schedulerTimer,   \* engine.schedulerTimer: an id or NULL
    clapVariants,     \* engine.clapVariants # null
    sampleBuffer,     \* engine.sampleBuffer # null
    footstompBuffer,  \* engine.footstompBuffer # null
    customBuffer,     \* engine.customBuffer # null
    persons,          \* engine.persons
    nextBeatTime,     \* engine.nextBeatTime, ms
    currentBeat,      \* engine.currentBeat
    clapEvents,       \* engine.clapEvents
    engineState,      \* engine.state # null (the reference main.js sets)
    playing,          \* state.playing
    bpm,              \* state.bpm
    clapperCount,     \* state.clapperCount
    spread,           \* state.spread
    distribution,     \* state.distribution
    soundSource,      \* state.soundSource
    initialized,      \* main.js: initialized
    engine,           \* main.js: engine # null
    viz,              \* main.js: viz # null
    vizRunning,       \* viz.animFrame # null
    initPc,           \* where the one initOnce() call stands
    lastOp,           \* history: "tick" or "tickThrow" right after a timer firing,
                      \* "draw" right after a draw callback, else "other"
    tickBeats,        \* history: the beats the last tick passed to scheduleBeat
    tickSink,         \* history: the claps the last tick handed to the sink
    tickDropped,      \* history: the claps the last tick skipped
    tickLog,          \* history: the log length before the last tick, and its trims
    sampleCount,      \* samplePersons: the argument count of the call in progress
    indices,          \* samplePersons: the Set indices, in insertion order
    sampled,          \* samplePersons: the array it returns
    samplePc,         \* samplePersons: "idle", "loop" (the while loop) or "done"
    personIds,        \* the identities of the objects in engine.persons, in order
    prevIds,          \* history: the identities the pool held before the last regeneratePersons
    regenCount,       \* regeneratePersons: the argument count of the call in progress
    regenI,           \* regeneratePersons: the loop variable i
    regenPc,          \* regeneratePersons: "idle", "loop" (the for loop) or "done"
    distArgs,         \* distributions.js: the arguments and the Math.random() draws of a call
    distResult,       \* distributions.js: what the call returned
    distPc,           \* distributions.js: "idle", "call" or "done"
    lastProcessedEventIndex,  \* viz.lastProcessedEventIndex
    histogramTotal,   \* viz.histogramTotal
    loggedTotal       \* history: the logEvent calls since the run started

engineVars == <<audioCtx, timers, schedulerTimer, clapVariants, sampleBuffer,
                footstompBuffer, customBuffer, persons, nextBeatTime,
                currentBeat, clapEvents, engineState>>
schedVars == <<nextBeatTime, currentBeat, clapEvents>>
timerVars == <<timers, schedulerTimer>>
assetVars == <<clapVariants, sampleBuffer, footstompBuffer, customBuffer>>
configVars == <<bpm, clapperCount, spread, distribution, soundSource>>
appVars == <<playing, initialized, engine, viz, vizRunning, initPc>>
histVars == <<lastOp, tickBeats, tickSink, tickDropped, tickLog>>
sampleVars == <<sampleCount, indices, sampled, samplePc>>
regenVars == <<personIds, prevIds, regenCount, regenI, regenPc>>
distVars == <<distArgs, distResult, distPc>>
histoVars == <<lastProcessedEventIndex, histogramTotal, loggedTotal>>
sideVars == <<regenVars, distVars, histoVars>>
vars == <<clock, ctxAvailable, engineVars, configVars, appVars, histVars, sampleVars,
          sideVars>>

\* ------------------------------------------------------------------------
\* js/distributions.js
\* ------------------------------------------------------------------------
\* variant: the draw is scaled by a fixed 100 ms, not by the spread
uniformFixedScale(sp, r) == ((2 * r - RandSteps) * 100) \div RandSteps

\* uniform(spread): (Math.random() - 0.5) * 2 * spread, with Math.random() = r / RandSteps
uniform(sp, r) == ((2 * r - RandSteps) * sp) \div RandSteps

\* sampleOffset(type, spread, alpha, betaParam) as the scheduler calls it:
\* its runs use the uniform distribution (Distributions); the whole switch
\* is sampleOffsetCall
sampleOffset(type, sp, r) ==
    CASE type = "uniform" -> uniform(sp, r)

\* ------------------------------------------------------------------------
\* js/audio-engine.js: helpers
\* ------------------------------------------------------------------------
\* the variant pool regeneratePersons draws from: clapVariants.length, or 1
NUM_CLAP_VARIANTS == 2
numVariants == IF clapVariants THEN NUM_CLAP_VARIANTS ELSE 1

\* one person of regeneratePersons, fields in thousandths
NewPerson(rv, rp, rq) ==
    [variantIndex |-> (rv * numVariants) \div RandSteps,
     pitchFactor  |-> 920 + (rp * 160) \div RandSteps,
     volumeFactor |-> 600 + (rq * 400) \div RandSteps]

PersonChoices == {NewPerson(rv, rp, rq) : rv \in PersonDraws, rp \in PersonDraws, rq \in PersonDraws}

\* the pools regeneratePersons(count) can build
PersonPools(count) == [1 .. count -> PersonChoices]

\* a decoded AudioBuffer, named by what it holds
Buffer(kind, variant) == [kind |-> kind, variant |-> variant]

\* variant: pattern mode without the rest, the fourth beat claps
getBufferNoRest(person, beatNumber) ==
    IF soundSource = "queen"
    THEN LET pos == beatNumber % 4
         IN  IF pos <= 1 THEN (IF footstompBuffer THEN Buffer("footstomp", 0) ELSE NoBuffer)
             ELSE IF clapVariants THEN Buffer("clap", person.variantIndex)
             ELSE NoBuffer
    ELSE IF soundSource = "custom" /\ customBuffer THEN Buffer("custom", 0)
    ELSE IF soundSource = "sample" /\ sampleBuffer THEN Buffer("sample", 0)
    ELSE IF soundSource = "footstomp" /\ footstompBuffer THEN Buffer("footstomp", 0)
    ELSE IF clapVariants THEN Buffer("clap", person.variantIndex)
    ELSE NoBuffer

\* getBuffer(person, beatNumber): a buffer, or NoBuffer for null
getBuffer(person, beatNumber) ==
    IF soundSource = "queen"
    THEN LET pos == beatNumber % 4
         IN  IF pos = 3 THEN NoBuffer
             ELSE IF pos <= 1 THEN (IF footstompBuffer THEN Buffer("footstomp", 0) ELSE NoBuffer)
             ELSE IF clapVariants THEN Buffer("clap", person.variantIndex)
             ELSE NoBuffer
    ELSE IF soundSource = "custom" /\ customBuffer THEN Buffer("custom", 0)
    ELSE IF soundSource = "sample" /\ sampleBuffer THEN Buffer("sample", 0)
    ELSE IF soundSource = "footstomp" /\ footstompBuffer THEN Buffer("footstomp", 0)
    ELSE IF clapVariants THEN Buffer("clap", person.variantIndex)
    ELSE NoBuffer

Max(a, b) == IF a >= b THEN a ELSE b

\* Array.prototype.slice(-n) for n > 0
SliceLast(s, n) == IF Len(s) <= n THEN s ELSE SubSeq(s, Len(s) - n + 1, Len(s))

\* variant: the trim keeps the oldest events, slice(0, n) for slice(-n)
logEventKeepOldest(log, beatTime, offsetMs, personIndex) ==
    LET pushed == Append(log, [beatTime |-> beatTime, offsetMs |-> offsetMs,
                               personIndex |-> personIndex])
    IN  IF Len(pushed) > maxEvents
        THEN SubSeq(pushed, 1, (maxEvents * 7) \div 10)
        ELSE pushed

\* variant: logEvent without the trim
logEventNoTrim(log, beatTime, offsetMs, personIndex) ==
    Append(log, [beatTime |-> beatTime, offsetMs |-> offsetMs, personIndex |-> personIndex])

\* logEvent(beatTime, offsetMs, personIndex); the timestamp field
\* (performance.now()) is left out of the entries
logEvent(log, beatTime, offsetMs, personIndex) ==
    LET pushed == Append(log, [beatTime |-> beatTime, offsetMs |-> offsetMs,
                               personIndex |-> personIndex])
    IN  IF Len(pushed) > maxEvents
        THEN SliceLast(pushed, (maxEvents * 7) \div 10)
        ELSE pushed

\* the index orders samplePersons can draw: count distinct indices of the pool
InjectiveSeqs(total, count) ==
    {s \in [1 .. count -> 1 .. total] : \A i, j \in 1 .. count : i # j => s[i] # s[j]}

\* samplePersons(count), given the indices the random draws produced
samplePersons(count, idx) ==
    IF Len(persons) <= count THEN persons
    ELSE [i \in 1 .. count |-> persons[idx[i]]]

\* persons.slice(0, clapperCount)
SliceFirst(s, n) == IF Len(s) <= n THEN s ELSE SubSeq(s, 1, n)

\* the batch of scheduleBeat and its gain compensation; gainScale is kept as
\* its square, a fraction <<numerator, denominator>>
personsToSchedule(idx) ==
    IF clapperCount > LOD_CLAPPER_THRESHOLD
    THEN samplePersons(LOD_SAMPLE_COUNT, idx)
    ELSE SliceFirst(persons, clapperCount)

\* variant: the compensation is computed without the crowd-size test
gainScaleSqAlways == <<clapperCount, LOD_SAMPLE_COUNT>>

gainScaleSq ==
    IF clapperCount > LOD_CLAPPER_THRESHOLD
    THEN <<clapperCount, LOD_SAMPLE_COUNT>>
    ELSE <<1, 1>>

BatchSize ==
    IF clapperCount > LOD_CLAPPER_THRESHOLD
    THEN (IF Len(persons) <= LOD_SAMPLE_COUNT THEN Len(persons) ELSE LOD_SAMPLE_COUNT)
    ELSE (IF Len(persons) <= clapperCount THEN Len(persons) ELSE clapperCount)

\* ------------------------------------------------------------------------
\* js/audio-engine.js: scheduleBeat and schedule
\* ------------------------------------------------------------------------
\* variant: the beat interval of half the tempo
beatIntervalHalfTempo == 120000 \div bpm

\* 60 / state.bpm, in ms
beatInterval == 60000 \div bpm

\* "Skip if clap time is in the past"
IsTooLate(clapTime) == clapTime < clock - LateToleranceMs

\* variant: the clap is started at its own instant, unclamped
StartTimeUnclamped(clapTime) == clapTime

\* source.start(Math.max(clapTime, this.audioCtx.currentTime))
StartTime(clapTime) == Max(clapTime, clock)

\* one clap of the person loop, as the histories record it
Clap(beatTime, beatNumber, offsetMs, pi) ==
    [beatTime |-> beatTime, beatNumber |-> beatNumber, offsetMs |-> offsetMs,
     personIndex |-> pi]

\* variant: the event is logged before the two skip checks
ScheduleClapLogFirst(acc, beatTime, beatNumber, person, pi, r) ==
    LET offsetMs == sampleOffset(distribution, spread, r)
        clapTime == beatTime + offsetMs
        buffer   == getBuffer(person, beatNumber)
        clap     == Clap(beatTime, beatNumber, offsetMs, pi)
        logged   == [acc EXCEPT !.log = logEvent(@, beatTime, offsetMs, pi)]
    IN  IF IsTooLate(clapTime)
        THEN [logged EXCEPT !.dropped = Append(@, [clap |-> clap, why |-> "late"])]
        ELSE IF buffer = NoBuffer
        THEN [logged EXCEPT !.dropped = Append(@, [clap |-> clap, why |-> "nobuffer"])]
        ELSE [logged EXCEPT
                !.sink = Append(@, [clap |-> clap,
                                    buffer |-> buffer,
                                    playbackRate |-> person.pitchFactor,
                                    volumeFactor |-> person.volumeFactor,
                                    gainScaleSq |-> gainScaleSq,
                                    when |-> StartTime(clapTime),
                                    now |-> clock])]

\* one iteration of the person loop of scheduleBeat; acc holds the event log,
\* the claps handed to the sink and the claps skipped so far in this tick
ScheduleClap(acc, beatTime, beatNumber, person, pi, r) ==
    LET offsetMs == sampleOffset(distribution, spread, r)
        clapTime == beatTime + offsetMs
        buffer   == getBuffer(person, beatNumber)
        clap     == Clap(beatTime, beatNumber, offsetMs, pi)
    IN  IF IsTooLate(clapTime)
        THEN [acc EXCEPT !.dropped = Append(@, [clap |-> clap, why |-> "late"])]
        ELSE IF buffer = NoBuffer
        THEN [acc EXCEPT !.dropped = Append(@, [clap |-> clap, why |-> "nobuffer"])]
        ELSE [acc EXCEPT
                !.sink = Append(@, [clap |-> clap,
                                    buffer |-> buffer,
                                    playbackRate |-> person.pitchFactor,
                                    volumeFactor |-> person.volumeFactor,
                                    gainScaleSq |-> gainScaleSq,
                                    when |-> StartTime(clapTime),
                                    now |-> clock]),
                !.log = logEvent(@, beatTime, offsetMs, pi),
                !.trims = IF Len(logEvent(acc.log, beatTime, offsetMs, pi)) <= Len(acc.log)
                          THEN @ + 1 ELSE @]

\* variant: a missing buffer ends the person loop ("break" for "continue")
RECURSIVE PersonLoopBreak(_, _, _, _, _, _)
PersonLoopBreak(acc, beatTime, beatNumber, batch, rs, i) ==
    IF i > Len(batch) THEN acc
    ELSE IF /\ ~IsTooLate(beatTime + sampleOffset(distribution, spread, rs[i]))
            /\ getBuffer(batch[i], beatNumber) = NoBuffer
    THEN ScheduleClap(acc, beatTime, beatNumber, batch[i], i - 1, rs[i])
    ELSE CHOOSE res \in
            {PersonLoopBreak(a, beatTime, beatNumber, batch, rs, i + 1) :
                a \in {ScheduleClap(acc, beatTime, beatNumber, batch[i], i - 1, rs[i])}} :
            TRUE

\* for (let pi = 0; pi < personsToSchedule.length; pi++); i is pi + 1.
\* (Binding each iteration's result in a one-element set makes TLC compute
\* it once.)
RECURSIVE PersonLoop(_, _, _, _, _, _)
PersonLoop(acc, beatTime, beatNumber, batch, rs, i) ==
    IF i > Len(batch) THEN acc
    ELSE CHOOSE res \in
            {PersonLoop(a, beatTime, beatNumber, batch, rs, i + 1) :
                a \in {ScheduleClap(acc, beatTime, beatNumber, batch[i], i - 1, rs[i])}} :
            TRUE

\* scheduleBeat(beatTime, beatNumber); idx are the indices samplePersons
\* drew and rs the draws of sampleOffset, one per person of the batch
scheduleBeat(acc, beatTime, beatNumber, idx, rs) ==
    CHOOSE res \in
        {PersonLoop(acc, beatTime, beatNumber, batch, rs, 1) :
            batch \in {personsToSchedule(idx)}} :
        TRUE

\* variant: a beat due exactly at the end of the window is scheduled too
BeatDueInclusive(nbt) == nbt <= clock + LOOKAHEAD_MS

\* the guard of the drain loop
BeatDue(nbt) == nbt < clock + LOOKAHEAD_MS

\* the number of iterations the drain loop makes from nbt
RECURSIVE DueBeats(_)
DueBeats(nbt) == IF BeatDue(nbt) THEN 1 + DueBeats(nbt + beatInterval) ELSE 0

\* variant: a beat that handed nothing to the sink keeps its number for the
\* next beat
DrainStepRetry(st, idx, rs) ==
    LET acc == scheduleBeat(st.acc, st.nextBeatTime, st.currentBeat, idx, rs)
    IN  [nextBeatTime |-> st.nextBeatTime + beatInterval,
         currentBeat  |-> IF Len(acc.sink) = Len(st.acc.sink)
                          THEN st.currentBeat ELSE st.currentBeat + 1,
         beats        |-> Append(st.beats, [beatTime |-> st.nextBeatTime,
                                            beatNumber |-> st.currentBeat]),
         acc          |-> acc]

\* the body of the drain loop: schedule one beat, advance the position
DrainStep(st, idx, rs) ==
    [nextBeatTime |-> st.nextBeatTime + beatInterval,
     currentBeat  |-> st.currentBeat + 1,
     beats        |-> Append(st.beats, [beatTime |-> st.nextBeatTime,
                                        beatNumber |-> st.currentBeat]),
     acc          |-> scheduleBeat(st.acc, st.nextBeatTime, st.currentBeat, idx, rs)]

RECURSIVE Drain(_, _, _, _)
Drain(st, sel, rs, k) ==
    IF BeatDue(st.nextBeatTime)
    THEN CHOOSE res \in
            {Drain(s2, sel, rs, k + 1) : s2 \in {DrainStep(st, sel[k], rs[k])}} :
            TRUE
    ELSE st

\* variant: "if" for "while", at most one beat per tick
DrainOnce(st, sel, rs) ==
    IF BeatDue(st.nextBeatTime) THEN DrainStep(st, sel[1], rs[1]) ELSE st

\* while (this.nextBeatTime < this.audioCtx.currentTime + lookaheadSec) {...}
DrainLoop(st, sel, rs) == Drain(st, sel, rs, 1)

\* the index orders one call of samplePersons can draw (one, the empty
\* order, when no sampling takes place)
Selections ==
    IF clapperCount > LOD_CLAPPER_THRESHOLD /\ Len(persons) > LOD_SAMPLE_COUNT
    THEN InjectiveSeqs(Len(persons), LOD_SAMPLE_COUNT)
    ELSE {<<>>}

NoTick == [before |-> 0, trims |-> 0]

\* the histories: every handler but the tick clears what the last tick did
Hist(op) ==
    /\ lastOp' = op
    /\ tickBeats' = <<>>
    /\ tickSink' = <<>>
    /\ tickDropped' = <<>>
    /\ tickLog' = NoTick

\* schedule(), the callback of every live interval timer.  With
\* engine.state still null, "this.state.bpm" throws a TypeError.
schedule ==
    IF ~engineState \/ ~audioCtx
    THEN /\ UNCHANGED schedVars
         /\ Hist("tickThrow")
    ELSE LET n == DueBeats(nextBeatTime)
         IN  \E sel \in [1 .. n -> Selections],
                rs \in [1 .. n -> [1 .. BatchSize -> Randoms]] :
                \E st \in {DrainLoop([nextBeatTime |-> nextBeatTime,
                                      currentBeat |-> currentBeat,
                                      beats |-> <<>>,
                                      acc |-> [log |-> clapEvents, sink |-> <<>>,
                                               dropped |-> <<>>, trims |-> 0]],
                                     sel, rs)} :
                    /\ nextBeatTime' = st.nextBeatTime
                    /\ currentBeat' = st.currentBeat
                    /\ clapEvents' = st.acc.log
                    /\ lastOp' = "tick"
                    /\ tickBeats' = st.beats
                    /\ tickSink' = st.acc.sink
                    /\ tickDropped' = st.acc.dropped
                    /\ tickLog' = [before |-> Len(clapEvents), trims |-> st.acc.trims]

\* ------------------------------------------------------------------------
\* js/audio-engine.js: start and stop
\* ------------------------------------------------------------------------
\* the handle setInterval returns: an id no live timer has
NewTimerId == CHOOSE i \in 1 .. (Cardinality(timers) + 1) : i \notin timers

\* variant: start() that keeps the event log of the previous run
startKeepLog ==
    IF ~audioCtx
    THEN UNCHANGED <<schedVars, timerVars>>
    ELSE /\ nextBeatTime' = clock + LeadInMs
         /\ currentBeat' = 0
         /\ clapEvents' = clapEvents
         /\ timers' = timers \cup {NewTimerId}
         /\ schedulerTimer' = NewTimerId

\* variant: start() that keeps the beat counter of the previous run
startNoRewind ==
    IF ~audioCtx
    THEN UNCHANGED <<schedVars, timerVars>>
    ELSE /\ nextBeatTime' = clock + LeadInMs
         /\ currentBeat' = currentBeat
         /\ clapEvents' = <<>>
         /\ timers' = timers \cup {NewTimerId}
         /\ schedulerTimer' = NewTimerId

\* start()
start ==
    IF ~audioCtx
    THEN UNCHANGED <<schedVars, timerVars>>
    ELSE /\ nextBeatTime' = clock + LeadInMs
         /\ currentBeat' = 0
         /\ clapEvents' = <<>>
         /\ timers' = timers \cup {NewTimerId}
         /\ schedulerTimer' = NewTimerId

\* variant: stop() that rewinds the beat counter
stopAndRewind ==
    /\ IF schedulerTimer # NULL
       THEN /\ timers' = timers \ {schedulerTimer}
            /\ schedulerTimer' = NULL
       ELSE UNCHANGED timerVars
    /\ currentBeat' = 0
    /\ UNCHANGED <<nextBeatTime, clapEvents>>

\* stop()
stop ==
    /\ IF schedulerTimer # NULL
       THEN /\ timers' = timers \ {schedulerTimer}
            /\ schedulerTimer' = NULL
       ELSE UNCHANGED timerVars
    /\ UNCHANGED schedVars

\* regeneratePersons(count)
regeneratePersons(count) == persons' \in PersonPools(count)

\* no call of samplePersons is being followed step by step
SampleIdle ==
    /\ sampleCount = 0
    /\ indices = <<>>
    /\ sampled = <<>>
    /\ samplePc = "idle"

\* a null result of a distribution call that has not returned
NoResult == [k |-> "none", v |-> 0]
NoArgs == [type |-> "none"]

\* no call of regeneratePersons or of a distribution is being followed, and
\* no draw callback of the visualization runs
RegenIdle ==
    /\ personIds = <<>>
    /\ prevIds = {}
    /\ regenCount = 0
    /\ regenI = 0
    /\ regenPc = "idle"

DistIdle ==
    /\ distArgs = NoArgs
    /\ distResult = NoResult
    /\ distPc = "idle"

HistoIdle ==
    /\ lastProcessedEventIndex = 0
    /\ histogramTotal = 0
    /\ loggedTotal = 0

SideIdle == RegenIdle /\ DistIdle /\ HistoIdle

\* ------------------------------------------------------------------------
\* The environment: the audio clock and the interval timers
\* ------------------------------------------------------------------------
AdvanceClock(d) ==
    /\ clock + d <= MaxClock
    /\ clock' = clock + d
    /\ Hist("other")
    /\ UNCHANGED <<ctxAvailable, sampleVars, sideVars, engineVars, configVars, appVars>>

\* a live interval timer fires
Tick ==
    /\ timers # {}
    /\ schedule
    /\ UNCHANGED <<clock, ctxAvailable, sampleVars, sideVars, audioCtx, timerVars, assetVars, persons,
                   engineState, configVars, appVars>>

\* ------------------------------------------------------------------------
\* js/main.js: the sliders and selectors
\* ------------------------------------------------------------------------
SetBpm(v) ==
    /\ v # bpm
    /\ bpm' = v
    /\ Hist("other")
    /\ UNCHANGED <<clock, ctxAvailable, sampleVars, sideVars, engineVars, clapperCount, spread,
                   distribution, soundSource, appVars>>

\* variant: the slider handler leaves the pool as it is
SetClappersNoRegenerate(v) ==
    /\ clapperCount' = v
    /\ UNCHANGED persons
    /\ Hist("other")
    /\ UNCHANGED <<clock, ctxAvailable, sampleVars, sideVars, audioCtx, timerVars, assetVars, schedVars,
                   engineState, bpm, spread, distribution, soundSource, appVars>>

SetClappers(v) ==
    /\ clapperCount' = v
    /\ IF engine THEN regeneratePersons(v) ELSE UNCHANGED persons
    /\ Hist("other")
    /\ UNCHANGED <<clock, ctxAvailable, sampleVars, sideVars, audioCtx, timerVars, assetVars, schedVars,
                   engineState, bpm, spread, distribution, soundSource, appVars>>

SetSpread(v) ==
    /\ v # spread
    /\ spread' = v
    /\ Hist("other")
    /\ UNCHANGED <<clock, ctxAvailable, sampleVars, sideVars, engineVars, bpm, clapperCount,
                   distribution, soundSource, appVars>>

SetSource(v) ==
    /\ v # soundSource
    /\ soundSource' = v
    /\ Hist("other")
    /\ UNCHANGED <<clock, ctxAvailable, sampleVars, sideVars, engineVars, bpm, clapperCount, spread,
                   distribution, appVars>>

\* ------------------------------------------------------------------------
\* js/main.js: initOnce and the Play/Stop button
\* ------------------------------------------------------------------------
\* the body of the click handler after "await initOnce()"; v tells whether
\* viz is set when it runs (viz.start() / viz.stop() throw on null)
Toggle(v) ==
    IF playing
    THEN /\ playing' = FALSE
         /\ stop
         /\ vizRunning' = (IF v THEN FALSE ELSE vizRunning)
         /\ Hist("other")
    ELSE /\ playing' = TRUE
         /\ start
         /\ vizRunning' = (IF v THEN TRUE ELSE vizRunning)
         /\ Hist("other")

\* a click on Play while initOnce() has not been called: the engine is
\* constructed and engine.init() runs up to its first await, or throws in
\* createContext when the browser has no AudioContext
PlayClickFirst ==
    /\ ~initialized
    /\ initialized' = TRUE
    /\ engine' = TRUE
    /\ IF ctxAvailable
       THEN /\ audioCtx' = TRUE
            /\ initPc' = "synth"
       ELSE /\ audioCtx' = FALSE
            /\ initPc' = "failed"
    /\ Hist("other")
    /\ UNCHANGED <<clock, ctxAvailable, sampleVars, sideVars, timerVars, assetVars, persons, schedVars,
                   engineState, configVars, playing, viz, vizRunning>>

\* a click on Play once initialized is set: initOnce() returns at once and
\* the handler goes on in the same task
PlayClick ==
    /\ initialized
    /\ Toggle(viz)
    /\ UNCHANGED <<clock, ctxAvailable, sampleVars, sideVars, audioCtx, assetVars, persons, engineState,
                   configVars, initialized, engine, viz, initPc>>

\* engine.init(): synthesizeClapVariants() resolves
InitSynthDone ==
    /\ initPc = "synth"
    /\ clapVariants' = TRUE
    /\ initPc' = "decode"
    /\ Hist("other")
    /\ UNCHANGED <<clock, ctxAvailable, sampleVars, sideVars, audioCtx, timerVars, sampleBuffer,
                   footstompBuffer, customBuffer, persons, schedVars, engineState,
                   configVars, playing, initialized, engine, viz, vizRunning>>

\* engine.init(): the two embedded samples are decoded (a failed decode is
\* caught and leaves the buffer null; the CC0 sample, which no sound source
\* of Sources reads, decodes); initOnce() then wires the engine and the
\* click handler that awaited it goes on
InitDecodeDone ==
    /\ initPc = "decode"
    /\ sampleBuffer' = TRUE
    /\ footstompBuffer' \in BOOLEAN
    /\ engineState' = TRUE
    /\ regeneratePersons(clapperCount)
    /\ viz' = TRUE
    /\ initPc' = "done"
    /\ Toggle(TRUE)
    /\ UNCHANGED <<clock, ctxAvailable, sampleVars, sideVars, audioCtx, clapVariants, customBuffer,
                   configVars, initialized, engine>>

\* ------------------------------------------------------------------------
\* The application
\* ------------------------------------------------------------------------
Init ==
    /\ clock = 0
    /\ ctxAvailable \in BOOLEAN
    /\ audioCtx = FALSE
    /\ timers = {}
    /\ schedulerTimer = NULL
    /\ clapVariants = FALSE
    /\ sampleBuffer = FALSE
    /\ footstompBuffer = FALSE
    /\ customBuffer = FALSE
    /\ persons = <<>>
    /\ nextBeatTime = 0
    /\ currentBeat = 0
    /\ clapEvents = <<>>
    /\ engineState = FALSE
    /\ playing = FALSE
    /\ bpm \in BPMs
    /\ clapperCount \in ClapperCounts
    /\ spread \in Spreads
    /\ distribution \in Distributions
    /\ soundSource \in Sources
    /\ initialized = FALSE
    /\ engine = FALSE
    /\ viz = FALSE
    /\ vizRunning = FALSE
    /\ initPc = "none"
    /\ lastOp = "other"
    /\ tickBeats = <<>>
    /\ tickSink = <<>>
    /\ tickDropped = <<>>
    /\ tickLog = NoTick
    /\ SampleIdle
    /\ SideIdle

Next ==
    \/ \E d \in ClockSteps : AdvanceClock(d)
    \/ Tick
    \/ \E v \in BPMs : SetBpm(v)
    \/ \E v \in ClapperCounts : SetClappers(v)
    \/ \E v \in Spreads : SetSpread(v)
    \/ \E v \in Sources : SetSource(v)
    \/ PlayClickFirst
    \/ PlayClick
    \/ InitSynthDone
    \/ InitDecodeDone

Spec == Init /\ [][Next]_vars

\* ------------------------------------------------------------------------
\* The engine on its own: an initialised, wired AudioEngine whose start()
\* and stop() are called in any order.  The spread stays at the top of the
\* slider, where the sampler draws offset 0 as well as offsets that make a
\* clap late; the foot-stomp sample may have failed to decode, and then the
\* stomp beats of pattern mode find no buffer.
\* ------------------------------------------------------------------------
EngStart ==
    /\ Cardinality(timers) < MaxTimers
    /\ start
    /\ Hist("other")
    /\ UNCHANGED <<clock, ctxAvailable, sampleVars, sideVars, audioCtx, assetVars, persons, engineState,
                   configVars, appVars>>

EngStop ==
    /\ stop
    /\ Hist("other")
    /\ UNCHANGED <<clock, ctxAvailable, sampleVars, sideVars, audioCtx, assetVars, persons, engineState,
                   configVars, appVars>>

InitEngine ==
    /\ clock = 0
    /\ ctxAvailable = TRUE
    /\ audioCtx = TRUE
    /\ timers = {}
    /\ schedulerTimer = NULL
    /\ clapVariants = TRUE
    /\ sampleBuffer = TRUE
    /\ footstompBuffer \in BOOLEAN
    /\ customBuffer = FALSE
    /\ bpm \in BPMs
    /\ clapperCount \in ClapperCounts
    /\ persons \in PersonPools(clapperCount)
    /\ nextBeatTime = 0
    /\ currentBeat = 0
    /\ clapEvents = <<>>
    /\ engineState = TRUE
    /\ playing = FALSE
    /\ spread = 200
    /\ distribution \in Distributions
    /\ soundSource \in Sources
    /\ initialized = TRUE
    /\ engine = TRUE
    /\ viz = TRUE
    /\ vizRunning = FALSE
    /\ initPc = "done"
    /\ lastOp = "other"
    /\ tickBeats = <<>>
    /\ tickSink = <<>>
    /\ tickDropped = <<>>
    /\ tickLog = NoTick
    /\ SampleIdle
    /\ SideIdle

NextEngine ==
    \/ \E d \in ClockSteps : AdvanceClock(d)
    \/ Tick
    \/ EngStart
    \/ EngStop
    \/ \E v \in BPMs : SetBpm(v)
    \/ \E v \in ClapperCounts : SetClappers(v)
    \/ \E v \in Sources : SetSource(v)

SpecEngine == InitEngine /\ [][NextEngine]_vars

\* ------------------------------------------------------------------------
\* One run: an initialised, wired AudioEngine is started once and its
\* interval timer fires every SCHEDULE_INTERVAL_MS, the first time one
\* period after start().  The tempo and the other settings stay as they
\* were at start(); the persons of the pool differ in their clap variant.
\* ------------------------------------------------------------------------
\* the instant of the start() of the run: every beat so far moved
\* nextBeatTime by one beatInterval from now + 0.05
RunStartTime == nextBeatTime - LeadInMs - currentBeat * beatInterval

\* a pool regeneratePersons(count) builds: the variant draws differ from
\* person to person
RunPersons(count) == [i \in 1 .. count |-> NewPerson((i - 1) % RandSteps, 0, 0)]

RunStart ==
    /\ timers = {}
    /\ start
    /\ Hist("other")
    /\ UNCHANGED <<clock, ctxAvailable, sampleVars, sideVars, audioCtx, assetVars, persons, engineState,
                   configVars, appVars>>

\* one timer period elapses
RunPeriod ==
    /\ timers # {}
    /\ lastOp = "tick" \/ clock = RunStartTime
    /\ clock + SCHEDULE_INTERVAL_MS <= MaxRunMs
    /\ clock' = clock + SCHEDULE_INTERVAL_MS
    /\ Hist("other")
    /\ UNCHANGED <<ctxAvailable, sampleVars, sideVars, engineVars, configVars, appVars>>

\* the interval timer fires at the end of the period
RunTick ==
    /\ timers # {}
    /\ lastOp = "other"
    /\ clock > RunStartTime
    /\ schedule
    /\ UNCHANGED <<clock, ctxAvailable, sampleVars, sideVars, audioCtx, timerVars, assetVars, persons,
                   engineState, configVars, appVars>>

InitRun ==
    /\ clock = 0
    /\ ctxAvailable = TRUE
    /\ audioCtx = TRUE
    /\ timers = {}
    /\ schedulerTimer = NULL
    /\ clapVariants = TRUE
    /\ sampleBuffer = TRUE
    /\ footstompBuffer \in BOOLEAN
    /\ customBuffer = FALSE
    /\ bpm \in RunBPMs
    /\ clapperCount \in RunClapperCounts
    /\ persons = RunPersons(clapperCount)
    /\ nextBeatTime = 0
    /\ currentBeat = 0
    /\ clapEvents = <<>>
    /\ engineState = TRUE
    /\ playing = FALSE
    /\ spread \in Spreads
    /\ distribution \in Distributions
    /\ soundSource \in Sources
    /\ initialized = TRUE
    /\ engine = TRUE
    /\ viz = TRUE
    /\ vizRunning = FALSE
    /\ initPc = "done"
    /\ lastOp = "other"
    /\ tickBeats = <<>>
    /\ tickSink = <<>>
    /\ tickDropped = <<>>
    /\ tickLog = NoTick
    /\ SampleIdle
    /\ SideIdle

NextRun ==
    \/ RunStart
    \/ RunPeriod
    \/ RunTick

SpecRun == InitRun /\ [][NextRun]_vars

\* ------------------------------------------------------------------------
\* samplePersons(count), one step per loop iteration, on pools of every
\* size up to MaxPool whose persons all differ
\* ------------------------------------------------------------------------
SamplePool(total) ==
    [i \in 1 .. total |->
        NewPerson((i - 1) % RandSteps, ((i - 1) \div RandSteps) % RandSteps, 0)]

\* variant: the indices are collected in an array, not in a Set
ArrayPush(set, v) == Append(set, v)

\* Set.prototype.add, the Set kept in insertion order
SetAdd(set, v) ==
    IF \E i \in DOMAIN set : set[i] = v THEN set ELSE Append(set, v)

\* samplePersons(count) is called: "if (total <= count) return this.persons"
SampleCall(count) ==
    /\ samplePc \in {"idle", "done"}
    /\ sampleCount' = count
    /\ indices' = <<>>
    /\ IF Len(persons) <= count
       THEN /\ sampled' = persons
            /\ samplePc' = "done"
       ELSE /\ sampled' = <<>>
            /\ samplePc' = "loop"
    /\ UNCHANGED <<clock, ctxAvailable, engineVars, configVars, appVars, histVars,
                   sideVars>>

\* one iteration of "while (indices.size < count)"
SampleDraw(g) ==
    /\ samplePc = "loop"
    /\ Len(indices) < sampleCount
    /\ indices' = SetAdd(indices, (g * Len(persons)) \div SampleGrid)
    /\ UNCHANGED <<sampleCount, sampled, samplePc>>
    /\ UNCHANGED <<clock, ctxAvailable, engineVars, configVars, appVars, histVars,
                   sideVars>>

\* the while loop is left; "for (const i of indices) sampled.push(...)"
SampleReturn ==
    /\ samplePc = "loop"
    /\ Len(indices) >= sampleCount
    /\ sampled' = [i \in 1 .. Len(indices) |-> persons[indices[i] + 1]]
    /\ samplePc' = "done"
    /\ UNCHANGED <<sampleCount, indices>>
    /\ UNCHANGED <<clock, ctxAvailable, engineVars, configVars, appVars, histVars,
                   sideVars>>

InitSample ==
    /\ clock = 0
    /\ ctxAvailable = TRUE
    /\ audioCtx = TRUE
    /\ timers = {}
    /\ schedulerTimer = NULL
    /\ clapVariants = TRUE
    /\ sampleBuffer = TRUE
    /\ footstompBuffer = TRUE
    /\ customBuffer = FALSE
    /\ bpm = 120
    /\ clapperCount \in 1 .. MaxPool
    /\ persons = SamplePool(clapperCount)
    /\ nextBeatTime = 0
    /\ currentBeat = 0
    /\ clapEvents = <<>>
    /\ engineState = TRUE
    /\ playing = FALSE
    /\ spread = 0
    /\ distribution = "uniform"
    /\ soundSource = "synth"
    /\ initialized = TRUE
    /\ engine = TRUE
    /\ viz = TRUE
    /\ vizRunning = FALSE
    /\ initPc = "done"
    /\ lastOp = "other"
    /\ tickBeats = <<>>
    /\ tickSink = <<>>
    /\ tickDropped = <<>>
    /\ tickLog = NoTick
    /\ SampleIdle
    /\ SideIdle

NextSample ==
    \/ \E count \in 1 .. MaxSampleCount : SampleCall(count)
    \/ \E g \in 0 .. (SampleGrid - 1) : SampleDraw(g)
    \/ SampleReturn

SpecSample == InitSample /\ [][NextSample]_vars

\* ------------------------------------------------------------------------
\* logEvent on its own: any events are appended, in any order, to the log
\* of an initialised engine; tickLog.before keeps the length the log had
\* before the append
\* ------------------------------------------------------------------------
LogBeatTimes == {LeadInMs, LeadInMs + 500}
LogOffsets == {sampleOffset("uniform", 200, r) : r \in Randoms}
LogPersonIndices == {0, 1}

LogEvent(beatTime, offsetMs, personIndex) ==
    /\ clapEvents' = logEvent(clapEvents, beatTime, offsetMs, personIndex)
    /\ tickLog' = [before |-> Len(clapEvents), trims |-> 0]
    /\ UNCHANGED <<lastOp, tickBeats, tickSink, tickDropped>>
    /\ UNCHANGED <<clock, ctxAvailable, sampleVars, sideVars, audioCtx, timerVars, assetVars,
                   persons, nextBeatTime, currentBeat, engineState, configVars, appVars>>

InitLog ==
    /\ InitEngine
    /\ bpm = 120
    /\ clapperCount = 2
    /\ soundSource = "synth"
    /\ footstompBuffer

NextLog ==
    \E beatTime \in LogBeatTimes, offsetMs \in LogOffsets, personIndex \in LogPersonIndices :
        LogEvent(beatTime, offsetMs, personIndex)

SpecLog == InitLog /\ [][NextLog]_vars

\* ------------------------------------------------------------------------
\* regeneratePersons(count), one step per loop iteration and with every
\* value Math.random() returns; an object is known by its identity, a
\* natural number no other live object has
\* ------------------------------------------------------------------------
Range(seq) == {seq[i] : i \in DOMAIN seq}

\* the identity of a new object literal: none of the identities in use
FreshId(used) ==
    CHOOSE n \in 0 .. Cardinality(used) :
        n \notin used /\ \A m \in 0 .. (n - 1) : m \in used

\* variant: the array is kept and resized by the loop
KeepPersons(pool) == pool

\* "this.persons = []"
ClearPersons(pool) == <<>>

\* regeneratePersons(count) is called; the loop starts at i = 0
RegenCall(count) ==
    /\ regenPc \in {"idle", "done"}
    /\ regenCount' = count
    /\ regenI' = 0
    /\ prevIds' = Range(personIds)
    /\ persons' = ClearPersons(persons)
    /\ personIds' = ClearPersons(personIds)
    /\ regenPc' = "loop"
    /\ UNCHANGED <<clock, ctxAvailable, audioCtx, timerVars, assetVars, schedVars,
                   engineState, configVars, appVars, histVars, sampleVars,
                   distVars, histoVars>>

\* one iteration of "for (let i = 0; i < count; i++)": a new person is pushed
RegenPush(rv, rp, rq) ==
    /\ regenPc = "loop"
    /\ regenI < regenCount
    /\ persons' = Append(persons, NewPerson(rv, rp, rq))
    /\ personIds' = Append(personIds, FreshId(prevIds \cup Range(personIds)))
    /\ regenI' = regenI + 1
    /\ UNCHANGED <<prevIds, regenCount, regenPc>>
    /\ UNCHANGED <<clock, ctxAvailable, audioCtx, timerVars, assetVars, schedVars,
                   engineState, configVars, appVars, histVars, sampleVars,
                   distVars, histoVars>>

\* the loop is left
RegenReturn ==
    /\ regenPc = "loop"
    /\ regenI >= regenCount
    /\ regenPc' = "done"
    /\ UNCHANGED <<persons, personIds, prevIds, regenCount, regenI>>
    /\ UNCHANGED <<clock, ctxAvailable, audioCtx, timerVars, assetVars, schedVars,
                   engineState, configVars, appVars, histVars, sampleVars,
                   distVars, histoVars>>

\* a constructed engine: persons = [], with or without the synthesized
\* variants of init()
InitPersons ==
    /\ clock = 0
    /\ ctxAvailable = TRUE
    /\ audioCtx = TRUE
    /\ timers = {}
    /\ schedulerTimer = NULL
    /\ clapVariants \in BOOLEAN
    /\ sampleBuffer = FALSE
    /\ footstompBuffer = FALSE
    /\ customBuffer = FALSE
    /\ bpm = 120
    /\ clapperCount = 1
    /\ persons = <<>>
    /\ nextBeatTime = 0
    /\ currentBeat = 0
    /\ clapEvents = <<>>
    /\ engineState = FALSE
    /\ playing = FALSE
    /\ spread = 0
    /\ distribution = "uniform"
    /\ soundSource = "synth"
    /\ initialized = TRUE
    /\ engine = TRUE
    /\ viz = FALSE
    /\ vizRunning = FALSE
    /\ initPc = "synth"
    /\ lastOp = "other"
    /\ tickBeats = <<>>
    /\ tickSink = <<>>
    /\ tickDropped = <<>>
    /\ tickLog = NoTick
    /\ SampleIdle
    /\ SideIdle

NextPersons ==
    \/ \E count \in 1 .. MaxRegen : RegenCall(count)
    \/ \E rv \in Randoms, rp \in Randoms, rq \in Randoms : RegenPush(rv, rp, rq)
    \/ RegenReturn

SpecPersons == InitPersons /\ [][NextPersons]_vars

\* ------------------------------------------------------------------------
\* js/distributions.js, one call at a time.  Math.random() returns
\* r / RandSteps, r in 0 .. RandSteps-1, so exactly 0 is among its values.
\* A number is an IEEE 754 double: finite, an infinity with its sign, or
\* NaN.  uniform and the mapping of beta are computed exactly, in ms; of a
\* finite result of Math.log, Math.sqrt, Math.cos and Math.pow only the
\* sign is kept (v is -1, 0 or 1).
\* ------------------------------------------------------------------------
Fin(v) == [k |-> "fin", v |-> v]
Inf(s) == [k |-> "inf", v |-> s]
NaN == [k |-> "nan", v |-> 0]
Sign(n) == IF n > 0 THEN 1 ELSE IF n < 0 THEN -1 ELSE 0
Abs(n) == IF n < 0 THEN -n ELSE n

\* x * y: NaN is contagious and 0 * Infinity is NaN
Mul(x, y) ==
    IF x.k = "nan" \/ y.k = "nan" THEN NaN
    ELSE IF x.k = "inf" \/ y.k = "inf"
         THEN IF x.v = 0 \/ y.v = 0 THEN NaN ELSE Inf(Sign(x.v) * Sign(y.v))
         ELSE Fin(x.v * y.v)

\* -x
Neg(x) == Mul(Fin(-1), x)

\* x / 2
Half(x) == IF x.k = "fin" THEN Fin(x.v \div 2) ELSE x

\* Math.log(num / den), num >= 0 and den > 0: Math.log(0) is -Infinity
Log(num, den) == IF num = 0 THEN Inf(-1) ELSE Fin(Sign(num - den))

\* Math.sqrt(x)
Sqrt(x) ==
    IF x.k = "nan" THEN NaN
    ELSE IF x.v < 0 THEN NaN
         ELSE IF x.k = "inf" THEN x ELSE Fin(Sign(x.v))

\* Math.cos(2 * Math.PI * r / RandSteps), by the quadrant of the angle
Cos(r) ==
    IF 4 * r < RandSteps \/ 4 * r > 3 * RandSteps THEN Fin(1)
    ELSE IF 4 * r = RandSteps \/ 4 * r = 3 * RandSteps THEN Fin(0) ELSE Fin(-1)

\* Math.pow(u, 1 / shape), shape > 0: 0 for u = 0, positive otherwise
Pow(r) == IF r = 0 THEN 0 ELSE 1

\* "do { u = Math.random(); } while (u === 0)" reading the draws d from
\* position i: the position of the draw that leaves the loop, 0 while none does
NextNonZero(d, i) ==
    IF \E j \in i .. Len(d) : d[j] # 0
    THEN CHOOSE j \in i .. Len(d) : d[j] # 0 /\ \A m \in i .. (j - 1) : d[m] = 0
    ELSE 0

\* normal(spread)
normal(sp, d) ==
    LET j == NextNonZero(d, 1)
        z == Mul(Sqrt(Mul(Fin(-2), Log(d[j], RandSteps))), Cos(d[j + 1]))
    IN  Mul(z, Fin(sp))

\* exponential(spread)
exponential(sp, d) ==
    IF sp = 0 THEN Fin(0)
    ELSE LET sign == IF 2 * d[1] < RandSteps THEN -1 ELSE 1
             j == NextNonZero(d, 2)
         IN  Mul(Fin(sign), Half(Mul(Neg(Log(d[j], RandSteps)), Fin(sp))))

\* variant: laplace without "if (spread === 0) return 0"
laplaceNoZeroReturn(sp, d) ==
    LET u2 == 2 * d[1] - RandSteps
        b == Fin((sp * 1000) \div 1414)
    IN  Mul(Mul(Neg(b), Fin(Sign(u2))), Log(RandSteps - Abs(u2), RandSteps))

\* laplace(spread): u = Math.random() - 0.5 is u2 / (2 * RandSteps), and
\* 1 - 2 * Math.abs(u) is (RandSteps - |u2|) / RandSteps
laplace(sp, d) ==
    IF sp = 0 THEN Fin(0)
    ELSE LET u2 == 2 * d[1] - RandSteps
             b == Fin((sp * 1000) \div 1414)
         IN  Mul(Mul(Neg(b), Fin(Sign(u2))), Log(RandSteps - Abs(u2), RandSteps))

\* gammaSample(shape), the shape in halves: below 1 the result of
\* gammaSample(shape + 1) is multiplied by Math.pow(u, 1 / shape); from 1 on
\* the Marsaglia-Tsang loop returns d * v, d > 0 and v > 0, here the value g
RECURSIVE gammaSample(_, _, _)
gammaSample(shape2, r, g) ==
    IF shape2 < 2 THEN gammaSample(shape2 + 2, r, g) * Pow(r) ELSE g

\* betaSample(a, b): ga / (ga + gb) as a fraction; the draw of gammaSample(b)
\* follows the draw of gammaSample(a), if that took one
betaSample(a2, b2, d, g) ==
    LET ga == gammaSample(a2, d[1], g[1])
        gb == gammaSample(b2, d[IF a2 < 2 THEN 2 ELSE 1], g[2])
    IN  [num |-> ga, den |-> ga + gb]

\* beta(spread, alpha, betaParam): (x * 2 - 1) * spread, and 0 / 0 is NaN
beta(sp, a2, b2, d, g) ==
    IF sp = 0 THEN Fin(0)
    ELSE LET x == betaSample(a2, b2, d, g)
         IN  IF x.den = 0 THEN NaN
             ELSE Fin(((2 * x.num - x.den) * sp) \div x.den)

\* sampleOffset(type, spread, alpha, betaParam): the switch, default normal
sampleOffsetCall(a) ==
    CASE a.type = "normal" -> normal(a.spread, a.draws)
      [] a.type = "uniform" -> Fin(uniform(a.spread, a.draws[1]))
      [] a.type = "exponential" -> exponential(a.spread, a.draws)
      [] a.type = "laplace" -> laplace(a.spread, a.draws)
      [] a.type = "beta" -> beta(a.spread, a.alpha2, a.beta2, a.draws, a.gamma)
      [] OTHER -> normal(a.spread, a.draws)

\* the call returns within the draws d: its rejection loops are left
Returns(a) ==
    CASE a.type \in {"uniform", "laplace", "beta"} -> TRUE
      [] a.type = "exponential" -> a.spread = 0 \/ NextNonZero(a.draws, 2) # 0
      [] OTHER -> NextNonZero(a.draws, 1) \in 1 .. (Len(a.draws) - 1)

\* the arguments of a call: the five names and one that is none of them,
\* spreads of the slider's range 0..200, shapes 0.5 and 2 (in halves)
DistTypes == {"normal", "uniform", "exponential", "laplace", "beta", "triangular"}
DistSpreads == {0, 50, 200}
Shapes == {1, 4}
DistInputs ==
    [type : DistTypes, spread : DistSpreads, alpha2 : Shapes, beta2 : Shapes,
     draws : [1 .. MaxDraws -> Randoms], gamma : [1 .. 2 -> 1 .. MaxGamma]]

\* the call returns
DistReturn ==
    /\ distPc = "call"
    /\ Returns(distArgs)
    /\ distResult' = sampleOffsetCall(distArgs)
    /\ distPc' = "done"
    /\ UNCHANGED distArgs
    /\ UNCHANGED <<clock, ctxAvailable, engineVars, configVars, appVars, histVars,
                   sampleVars, regenVars, histoVars>>

InitDist ==
    /\ clock = 0
    /\ ctxAvailable = TRUE
    /\ audioCtx = TRUE
    /\ timers = {}
    /\ schedulerTimer = NULL
    /\ clapVariants = TRUE
    /\ sampleBuffer = TRUE
    /\ footstompBuffer = TRUE
    /\ customBuffer = FALSE
    /\ bpm = 120
    /\ clapperCount = 1
    /\ persons = <<>>
    /\ nextBeatTime = 0
    /\ currentBeat = 0
    /\ clapEvents = <<>>
    /\ engineState = TRUE
    /\ playing = FALSE
    /\ spread = 0
    /\ distribution = "uniform"
    /\ soundSource = "synth"
    /\ initialized = TRUE
    /\ engine = TRUE
    /\ viz = TRUE
    /\ vizRunning = FALSE
    /\ initPc = "done"
    /\ lastOp = "other"
    /\ tickBeats = <<>>
    /\ tickSink = <<>>
    /\ tickDropped = <<>>
    /\ tickLog = NoTick
    /\ SampleIdle
    /\ RegenIdle
    /\ HistoIdle
    /\ distArgs \in DistInputs
    /\ distResult = NoResult
    /\ distPc = "call"

NextDist == DistReturn

SpecDist == InitDist /\ [][NextDist]_vars

\* ------------------------------------------------------------------------
\* js/synthesizer.js: the histogram of the visualization during one run.
\* Events are logged one logEvent call at a time and draw callbacks run
\* between them in any order; loggedTotal counts the logEvent calls.  The
\* settings do not change, so draw() never resets the histogram.
\* ------------------------------------------------------------------------
\* Math.max(this.state.spread, 10) * 3
displayRange == Max(spread, 10) * 3

\* Math.floor(((offsetMs + displayRange) / (2 * displayRange)) * HISTO_BINS)
HistogramBin(offsetMs) == ((offsetMs + displayRange) * HISTO_BINS) \div (2 * displayRange)

\* the events drawHistogram counts: those from lastProcessedEventIndex to
\* the end of the log whose bin is one of the HISTO_BINS bins
NewlyCounted ==
    {i \in (lastProcessedEventIndex + 1) .. Len(clapEvents) :
        /\ HistogramBin(clapEvents[i].offsetMs) >= 0
        /\ HistogramBin(clapEvents[i].offsetMs) < HISTO_BINS}

\* "if (this.histogramTotal > 500)": the decay by 0.995
Decay(total) == IF total > 500 THEN (total * 995) \div 1000 ELSE total

\* a clap of the running engine is logged
VizLogEvent(beatTime, offsetMs, personIndex) ==
    /\ loggedTotal < MaxLogged
    /\ clapEvents' = logEvent(clapEvents, beatTime, offsetMs, personIndex)
    /\ loggedTotal' = loggedTotal + 1
    /\ lastOp' = "other"
    /\ UNCHANGED <<lastProcessedEventIndex, histogramTotal>>
    /\ UNCHANGED <<tickBeats, tickSink, tickDropped, tickLog>>
    /\ UNCHANGED <<clock, ctxAvailable, sampleVars, regenVars, distVars, audioCtx,
                   timerVars, assetVars, persons, nextBeatTime, currentBeat,
                   engineState, configVars, appVars>>

\* a requestAnimationFrame callback: draw() calls drawHistogram
VizDraw ==
    /\ histogramTotal' = Decay(histogramTotal + Cardinality(NewlyCounted))
    /\ lastProcessedEventIndex' = Len(clapEvents)
    /\ lastOp' = "draw"
    /\ UNCHANGED loggedTotal
    /\ UNCHANGED <<tickBeats, tickSink, tickDropped, tickLog>>
    /\ UNCHANGED <<clock, ctxAvailable, sampleVars, regenVars, distVars, engineVars,
                   configVars, appVars>>

\* engine.start() and viz.start() have run: an empty log, an empty
\* histogram, lastProcessedEventIndex = 0
InitViz ==
    /\ InitEngine
    /\ bpm = 120
    /\ clapperCount = 2
    /\ spread = 200
    /\ soundSource = "synth"
    /\ footstompBuffer

NextViz ==
    \/ \E offsetMs \in LogOffsets : VizLogEvent(LeadInMs, offsetMs, 0)
    \/ VizDraw

SpecViz == InitViz /\ [][NextViz]_vars

\* ------------------------------------------------------------------------
\* Properties
\* ------------------------------------------------------------------------
ClapTime(c) == c.beatTime + c.offsetMs
LogEntry(c) == [beatTime |-> c.beatTime, offsetMs |-> c.offsetMs,
                personIndex |-> c.personIndex]
InLog(c) == \E i \in DOMAIN clapEvents : clapEvents[i] = LogEntry(c)
Min(a, b) == IF a <= b THEN a ELSE b

\* C1: for every sequence of start() and stop() calls, at most one periodic
\* tick timer is registered at any time, and once stop() has returned (the
\* engine holds no timer handle) no tick timer remains registered.
C1_AtMostOneTimer ==
    /\ Cardinality(timers) <= 1
    /\ schedulerTimer = NULL => timers = {}

\* C2: stop() changes none of nextBeatTime, currentBeat and the event log,
\* and from stop() to the next start() no step (no timer firing) changes
\* them: every step that ends with the engine stopped (schedulerTimer
\* null) leaves the three unchanged.
C2_FrozenAfterStop == [][schedulerTimer' = NULL => UNCHANGED schedVars]_vars

\* C3: in every reachable state the event log is no longer than maxEvents.
C3_LogWithinCap == Len(clapEvents) <= maxEvents

\* C3 witness: a tick has just pushed the log past the cap and trimmed it.
C3_Witness ==
    /\ lastOp = "tick"
    /\ tickLog.trims > 0
    /\ tickLog.before + Len(tickSink) > maxEvents
    /\ Len(clapEvents) = (maxEvents * 7) \div 10

\* C4: when a tick returns, nextBeatTime >= clock + lookahead, and the beats
\* it scheduled are the consecutive nominal beat times below clock +
\* lookahead, in increasing order, up to the new nextBeatTime.
C4_WindowDrained ==
    lastOp = "tick" =>
        /\ nextBeatTime >= clock + LOOKAHEAD_MS
        /\ \A i \in DOMAIN tickBeats :
              /\ tickBeats[i].beatTime < clock + LOOKAHEAD_MS
              /\ i < Len(tickBeats) =>
                    /\ tickBeats[i].beatTime < tickBeats[i + 1].beatTime
                    /\ tickBeats[i + 1].beatTime = tickBeats[i].beatTime + beatInterval
              /\ i = Len(tickBeats) =>
                    nextBeatTime = tickBeats[i].beatTime + beatInterval

\* C4 witness: a late tick that found two beats due and scheduled both.
C4_Witness == lastOp = "tick" /\ Len(tickBeats) >= 2

\* a step in which start() registered a timer
IsStartStep == schedulerTimer' # NULL /\ schedulerTimer' # schedulerTimer

\* C5: currentBeat never decreases across a step other than start().
C5_BeatMonotone == [][~IsStartStep => currentBeat' >= currentBeat]_vars

\* C5 witness: stop() has returned on an engine that is past its first beats.
C5_Witness == schedulerTimer = NULL /\ timers = {} /\ currentBeat >= 2

\* C6: engine.start() is never executed before decoding has completed and
\* engine.state and the person pool are set: the engine holds a tick timer
\* only when they are.
C6_StartAfterInit ==
    schedulerTimer # NULL =>
        /\ initPc = "done"
        /\ engineState
        /\ Len(persons) = clapperCount

\* C7: no timer firing of schedule() raises an exception.
C7_TickNeverThrows == lastOp # "tickThrow"

\* C8: the event log is ordered: beat times never decrease along it, and
\* neighbours of the same beat are in increasing personIndex order.
C8_LogOrdered ==
    \A i \in 1 .. (Len(clapEvents) - 1) :
        /\ clapEvents[i].beatTime <= clapEvents[i + 1].beatTime
        /\ clapEvents[i].beatTime = clapEvents[i + 1].beatTime
              => clapEvents[i].personIndex < clapEvents[i + 1].personIndex

\* C8 witness: a log that holds two events of one beat and then a later
\* beat, scheduled at another tempo than the first.
C8_Witness ==
    /\ Len(clapEvents) >= 3
    /\ clapEvents[1].beatTime = clapEvents[2].beatTime
    /\ clapEvents[2].beatTime < clapEvents[3].beatTime
    /\ lastOp = "tick"
    /\ clapEvents[3].beatTime - clapEvents[2].beatTime # beatInterval

\* C9: a clap more than 0.1 s in the past is neither handed to the sink nor
\* logged; a clap handed to the sink starts at max(clap instant, now), never
\* before now.
C9_LateDroppedStartClamped ==
    lastOp = "tick" =>
        /\ \A i \in DOMAIN tickSink :
              /\ ClapTime(tickSink[i].clap) >= clock - LateToleranceMs
              /\ tickSink[i].when = Max(ClapTime(tickSink[i].clap), clock)
              /\ tickSink[i].when >= clock
              /\ tickSink[i].now = clock
        /\ \A i \in DOMAIN tickDropped :
              /\ tickDropped[i].why = "late"
                    <=> ClapTime(tickDropped[i].clap) < clock - LateToleranceMs
              /\ tickDropped[i].why = "late" =>
                    /\ ~InLog(tickDropped[i].clap)
                    /\ \A j \in DOMAIN tickSink : tickSink[j].clap # tickDropped[i].clap

\* C9 witness: one tick dropped a clap as too late and started another,
\* whose instant had passed, at now.
C9_Witness ==
    /\ lastOp = "tick"
    /\ \E i \in DOMAIN tickDropped : tickDropped[i].why = "late"
    /\ \E i \in DOMAIN tickSink : ClapTime(tickSink[i].clap) < clock

\* C10: the log receives exactly one entry per clap handed to the sink, in
\* the same order, and none for a clap dropped as late or without buffer;
\* an entry carries the beat time, the sampled offset and the position in
\* the batch.
C10_LogMatchesSink ==
    lastOp = "tick" =>
        LET n == Len(tickSink)
            m == Min(n, Len(clapEvents))
        IN  /\ tickLog.trims = 0 => Len(clapEvents) = tickLog.before + n
            /\ tickLog.trims > 0 => Len(clapEvents) >= Min(n, (maxEvents * 7) \div 10)
            /\ \A j \in 1 .. m :
                  clapEvents[Len(clapEvents) - m + j] = LogEntry(tickSink[n - m + j].clap)
            /\ \A i \in DOMAIN tickDropped : ~InLog(tickDropped[i].clap)
            /\ \A i \in DOMAIN tickSink :
                  /\ tickSink[i].clap.personIndex >= 0
                  /\ tickSink[i].clap.personIndex < BatchSize
                  /\ \E b \in DOMAIN tickBeats :
                        tickBeats[b].beatTime = tickSink[i].clap.beatTime
                  /\ \E r \in Randoms :
                        tickSink[i].clap.offsetMs = sampleOffset(distribution, spread, r)

\* C10 witness: one tick handed two claps to the sink and dropped another.
C10_Witness ==
    /\ lastOp = "tick"
    /\ Len(tickSink) >= 2
    /\ Len(tickDropped) >= 1

\* the claps a tick handed to the sink, or skipped, for person pi of beat bn
SinkOf(bn, pi) ==
    {i \in DOMAIN tickSink : /\ tickSink[i].clap.beatNumber = bn
                             /\ tickSink[i].clap.personIndex = pi}
DroppedOf(bn, pi) ==
    {i \in DOMAIN tickDropped : /\ tickDropped[i].clap.beatNumber = bn
                                /\ tickDropped[i].clap.personIndex = pi}

\* C11: a missing buffer skips one person's event only.  Every person of
\* every beat of a tick is handled exactly once: skipped when its clap is
\* too late or no buffer resolves, else handed to the sink with a buffer
\* and logged; a skip for a missing buffer happens only where the resolver
\* returns none; and the position advances by one beat per beat handled.
C11_SkipOnlyThatEvent ==
    lastOp = "tick" =>
        /\ \A b \in DOMAIN tickBeats : \A pi \in 0 .. (BatchSize - 1) :
              /\ Cardinality(SinkOf(tickBeats[b].beatNumber, pi))
                    + Cardinality(DroppedOf(tickBeats[b].beatNumber, pi)) = 1
              /\ \A i \in DroppedOf(tickBeats[b].beatNumber, pi) :
                    /\ tickDropped[i].why \in {"late", "nobuffer"}
                    /\ tickDropped[i].why = "nobuffer" =>
                          /\ ClapTime(tickDropped[i].clap) >= clock - LateToleranceMs
                          /\ \E p \in DOMAIN persons :
                                getBuffer(persons[p], tickBeats[b].beatNumber) = NoBuffer
              /\ \A i \in SinkOf(tickBeats[b].beatNumber, pi) :
                    /\ tickSink[i].buffer # NoBuffer
                    /\ \E p \in DOMAIN persons :
                          getBuffer(persons[p], tickBeats[b].beatNumber) = tickSink[i].buffer
                    /\ tickLog.trims = 0 => InLog(tickSink[i].clap)
        /\ Len(tickSink) + Len(tickDropped) = Len(tickBeats) * BatchSize
        /\ \A b \in DOMAIN tickBeats :
              tickBeats[b].beatNumber = currentBeat - Len(tickBeats) + b - 1

\* C11 witness: in one beat the first person found no buffer, the loop went
\* on to the second, and the position moved past the beat.
C11_Witness ==
    /\ lastOp = "tick"
    /\ \E b \in DOMAIN tickBeats :
          /\ \E i \in DroppedOf(tickBeats[b].beatNumber, 0) : tickDropped[i].why = "nobuffer"
          /\ SinkOf(tickBeats[b].beatNumber, 1) \cup DroppedOf(tickBeats[b].beatNumber, 1) # {}
          /\ currentBeat > tickBeats[b].beatNumber

\* a step in which start() registered one more timer
TimerAdded == timers' # timers /\ timers \subseteq timers'

\* C12: right after start() on an engine with an audio context, currentBeat
\* is 0, the event log is empty, nextBeatTime is now + 0.05 s and the handle
\* of a newly registered periodic tick is held, whatever the previous run left.
C12_StartResets ==
    [][TimerAdded =>
          /\ currentBeat' = 0
          /\ clapEvents' = <<>>
          /\ nextBeatTime' = clock' + LeadInMs
          /\ schedulerTimer' \in timers' \ timers]_vars

\* C12 witness: start() has just returned, at a later instant, on an engine
\* whose earlier timer is still alive.
C12_Witness ==
    /\ Cardinality(timers) = 2
    /\ schedulerTimer = 2
    /\ clock > 0
    /\ currentBeat = 0
    /\ clapEvents = <<>>
    /\ nextBeatTime = clock + LeadInMs

\* C13: between two start() calls every beat number is passed to
\* scheduleBeat once, in the order 0, 1, 2, ...: a tick passes the numbers
\* from the old currentBeat up to the new one, each once, also when the
\* claps of a beat were dropped or skipped, and no other step but start()
\* moves currentBeat.
C13_BeatsOnceInOrder ==
    [][/\ lastOp' = "tick" =>
              /\ Len(tickBeats') = currentBeat' - currentBeat
              /\ \A b \in DOMAIN tickBeats' : tickBeats'[b].beatNumber = currentBeat + b - 1
       /\ (lastOp' # "tick" /\ ~TimerAdded) => currentBeat' = currentBeat]_vars

\* C13 witness: after a stall one tick passed beats 0 and 1; every clap of
\* beat 0 was dropped as late and beat 1 went to the sink.
C13_Witness ==
    /\ lastOp = "tick"
    /\ Len(tickBeats) = 2
    /\ currentBeat = 2
    /\ \E i \in DOMAIN tickDropped :
          tickDropped[i].clap.beatNumber = 0 /\ tickDropped[i].why = "late"
    /\ \A i \in DOMAIN tickSink : tickSink[i].clap.beatNumber = 1
    /\ tickSink # <<>>

\* C14: in pattern mode the claps a tick hands to the sink on beat k use the
\* foot-stomp buffer when k mod 4 is 0 or 1 and the person's own clap
\* variant when k mod 4 = 2; on a rest beat (k mod 4 = 3) every person's
\* offset is sampled but nothing goes to the sink or into the event log.
\* (A foot-stomp sample that failed to decode leaves the stomp beats silent.)
C14_QueenPattern ==
    (lastOp = "tick" /\ soundSource = "queen") =>
        \A b \in DOMAIN tickBeats : \A pi \in 0 .. (BatchSize - 1) :
            LET k    == tickBeats[b].beatNumber
                pos  == k % 4
                sunk == SinkOf(k, pi)
                drop == DroppedOf(k, pi)
            IN  /\ pos \in {0, 1} =>
                      /\ \A i \in sunk : tickSink[i].buffer = Buffer("footstomp", 0)
                      /\ \A i \in drop : tickDropped[i].why = "nobuffer" => ~footstompBuffer
                      /\ ~footstompBuffer => sunk = {}
                /\ pos = 2 =>
                      /\ \A i \in sunk :
                            /\ tickSink[i].buffer.kind = "clap"
                            /\ clapperCount <= LOD_CLAPPER_THRESHOLD =>
                                  tickSink[i].buffer.variant = persons[pi + 1].variantIndex
                            /\ \E p \in DOMAIN persons :
                                  tickSink[i].buffer.variant = persons[p].variantIndex
                      /\ \A i \in drop : tickDropped[i].why = "late"
                /\ pos = 3 =>
                      /\ sunk = {}
                      /\ drop # {}
                      /\ \A i \in drop :
                            \E r \in Randoms :
                                tickDropped[i].clap.offsetMs = sampleOffset(distribution, spread, r)
                      /\ \A j \in DOMAIN clapEvents :
                            clapEvents[j].beatTime # tickBeats[b].beatTime

\* C14 witness: the tick of a rest beat: two persons skipped, the one not
\* too late for want of a buffer, while the log holds an earlier beat's claps.
C14_Witness ==
    /\ lastOp = "tick"
    /\ soundSource = "queen"
    /\ clapperCount = 2
    /\ \E b \in DOMAIN tickBeats :
          /\ tickBeats[b].beatNumber % 4 = 3
          /\ DroppedOf(tickBeats[b].beatNumber, 0) # {}
          /\ \E i \in DroppedOf(tickBeats[b].beatNumber, 1) : tickDropped[i].why = "nobuffer"
          /\ clapEvents # <<>>
          /\ \A j \in DOMAIN clapEvents : clapEvents[j].beatTime < tickBeats[b].beatTime

\* the duration of the run so far, and the beats it has scheduled (each
\* beat has its own beatTime)
RunElapsed == clock - RunStartTime
BeatsAhead == currentBeat - RunElapsed \div (60000 \div bpm)

\* C17 as claimed: with the timer firing every 25 ms, the number of beats
\* scheduled at duration D is within 1 of floor(D / (60 / BPM)).
C17_BeatCountWithinOne ==
    schedulerTimer # NULL => (BeatsAhead >= -1 /\ BeatsAhead <= 1)

\* C17 amended: the number of beats scheduled at duration D is within 2 of
\* floor(D / (60 / BPM)).
C17_BeatCountWithinTwo ==
    schedulerTimer # NULL => (BeatsAhead >= -2 /\ BeatsAhead <= 2)

\* C17 witness: late in a run a tick has scheduled the beat two ahead of
\* floor(D / (60 / BPM)).
C17_Witness ==
    /\ schedulerTimer # NULL
    /\ lastOp = "tick"
    /\ RunElapsed >= 1000
    /\ tickBeats # <<>>
    /\ BeatsAhead = 2

\* the scenario of C18: 120 BPM, one clapper, spread 0, uniform
C18Scenario ==
    /\ schedulerTimer # NULL
    /\ bpm = 120
    /\ clapperCount = 1
    /\ spread = 0
    /\ distribution = "uniform"
ZeroOffsets ==
    /\ \A j \in DOMAIN clapEvents : clapEvents[j].offsetMs = 0
    /\ \A i \in DOMAIN tickSink : tickSink[i].clap.offsetMs = 0
    /\ \A i \in DOMAIN tickDropped : tickDropped[i].clap.offsetMs = 0

\* C18 as claimed: in the scenario, 2.0 s of ticks after start() schedule
\* exactly 4 beats, and every logged clap has offsetMs 0.
C18_FourBeatsZeroOffset ==
    C18Scenario =>
        /\ ZeroOffsets
        /\ RunElapsed = 2000 => currentBeat = 4

\* C18 amended: in the scenario, 2.0 s of ticks after start() schedule
\* exactly 5 beats (the fifth, due at 2.05 s, lies inside the lookahead of
\* the tick at 1.975 s), and every logged clap has offsetMs 0.
C18_FiveBeatsZeroOffset ==
    C18Scenario =>
        /\ ZeroOffsets
        /\ RunElapsed = 2000 => currentBeat = 5

\* C18 witness: the tick at 2.0 s of the scenario has fired and the log ends
\* with the clap of the beat due at 2.05 s.
C18_Witness ==
    /\ C18Scenario
    /\ RunElapsed = 2000
    /\ lastOp = "tick"
    /\ clapEvents # <<>>
    /\ clapEvents[Len(clapEvents)].beatTime = RunStartTime + 2050

\* C16: when the batch of a beat is the whole pool (the pool is no larger
\* than the sample count, or the crowd is not above the LOD threshold) the
\* gain compensation is exactly 1 and a clap plays at the person's own
\* volumeFactor; a compensation other than 1 goes with a strict subset.
C16_GainOneOnWholePool ==
    lastOp = "tick" =>
        \A i \in DOMAIN tickSink :
            LET g  == tickSink[i].gainScaleSq
                pi == tickSink[i].clap.personIndex
            IN  /\ (Len(persons) <= LOD_SAMPLE_COUNT \/ clapperCount <= LOD_CLAPPER_THRESHOLD) =>
                      /\ BatchSize = Len(persons)
                      /\ g[1] = g[2]
                      /\ tickSink[i].volumeFactor = persons[pi + 1].volumeFactor
                /\ BatchSize = Len(persons) => g[1] = g[2]
                /\ g[1] # g[2] => BatchSize < Len(persons)

\* C16 witness: a tick played both persons of a crowd of two, uncompensated.
C16_Witness ==
    /\ lastOp = "tick"
    /\ Len(persons) = 2
    /\ BatchSize = 2
    /\ \E i \in DOMAIN tickSink :
          /\ tickSink[i].clap.personIndex = 1
          /\ tickSink[i].gainScaleSq = <<1, 1>>

\* C20: when no AudioContext can be created, starting playback fails
\* explicitly and the application does not enter the playing state.
C20_NoPlayingWithoutContext == ~ctxAvailable => ~playing

\* C15: for a pool larger than the sample count, samplePersons returns
\* exactly count persons, taken from count pairwise distinct indices of
\* the pool, on every call.
C15_SampleDistinct ==
    (samplePc = "done" /\ Len(persons) > sampleCount) =>
        /\ Len(sampled) = sampleCount
        /\ Len(indices) = sampleCount
        /\ \A i, j \in DOMAIN indices : i # j => indices[i] # indices[j]
        /\ \A i \in DOMAIN indices :
              /\ indices[i] \in 0 .. (Len(persons) - 1)
              /\ sampled[i] = persons[indices[i] + 1]
        /\ \A i, j \in DOMAIN sampled : i # j => sampled[i] # sampled[j]

\* C15 witness: a call has returned three persons of a pool of four, the
\* last index drawn being the smallest.
C15_Witness ==
    /\ samplePc = "done"
    /\ Len(persons) = 4
    /\ sampleCount = 3
    /\ Len(sampled) = 3
    /\ indices[3] < indices[1]
    /\ indices[3] < indices[2]

\* C19: an append that makes the log longer than the cap leaves, in that
\* same append, exactly the floor(0.7 * cap) most recent events in their
\* order, the appended one last; another append removes nothing.
C19_TrimToRecent ==
    [][/\ clapEvents' # <<>>
       /\ LET keep   == (maxEvents * 7) \div 10
              pushed == Append(clapEvents, clapEvents'[Len(clapEvents')])
          IN  IF Len(clapEvents) + 1 > maxEvents
              THEN /\ Len(clapEvents') = keep
                   /\ \A j \in 1 .. keep :
                         clapEvents'[j] = pushed[Len(pushed) - keep + j]
              ELSE clapEvents' = pushed]_vars

\* C19 witness: an append to a full log has just trimmed it, and the events
\* kept differ from each other.
C19_Witness ==
    /\ tickLog.before = maxEvents
    /\ Len(clapEvents) = (maxEvents * 7) \div 10
    /\ clapEvents[1] # clapEvents[Len(clapEvents)]

\* C21: when a call of regeneratePersons(count) has returned, the pool holds
\* exactly count persons, every person has pitchFactor in [0.92, 1.08],
\* volumeFactor in [0.6, 1.0] and variantIndex in [0, numVariants), and no
\* object of the pool that was replaced is in the new pool.
C21_PoolRegenerated ==
    regenPc = "done" =>
        /\ Len(persons) = regenCount
        /\ Len(personIds) = Len(persons)
        /\ \A i \in DOMAIN persons :
              /\ persons[i].pitchFactor >= 920 /\ persons[i].pitchFactor <= 1080
              /\ persons[i].volumeFactor >= 600 /\ persons[i].volumeFactor <= 1000
              /\ persons[i].variantIndex >= 0 /\ persons[i].variantIndex < numVariants
        /\ Range(personIds) \cap prevIds = {}
        /\ Cardinality(Range(personIds)) = Len(personIds)

\* a pool of two was replaced by a pool of one whose person took the largest
\* draws
C21_Witness ==
    /\ regenPc = "done"
    /\ Cardinality(prevIds) > regenCount
    /\ clapVariants
    /\ \E i \in DOMAIN persons :
          /\ persons[i].variantIndex = numVariants - 1
          /\ persons[i].pitchFactor > 920
          /\ persons[i].volumeFactor > 600

\* C22: a call of any of the five distributions, or of sampleOffset with any
\* distribution name, with spread = 0 returns exactly 0, whatever
\* Math.random() returned.
C22_ZeroSpreadZeroOffset ==
    (distPc = "done" /\ distArgs.spread = 0) => distResult = Fin(0)

\* laplace with spread 0 returned although Math.random() gave 0, and so did
\* a name outside the five after its rejection loop dropped a 0
C22_Witness ==
    /\ distPc = "done"
    /\ distArgs.spread = 0
    /\ distResult = Fin(0)
    /\ \/ distArgs.type = "laplace" /\ distArgs.draws[1] = 0
       \/ distArgs.type = "triangular" /\ distArgs.draws[1] = 0

\* C23: uniform(spread) lies in [-spread, +spread], and so does
\* beta(spread, alpha, beta) for every positive alpha and beta, whatever
\* Math.random() returned.
C23_OffsetWithinSpread ==
    (distPc = "done" /\ distArgs.type \in {"uniform", "beta"}) =>
        /\ distResult.k = "fin"
        /\ distResult.v >= -distArgs.spread
        /\ distResult.v <= distArgs.spread

\* C28: normal, uniform, exponential and laplace with a spread in (0, 200]
\* return a finite number for every value Math.random() returns, 0 included.
C28_OffsetFinite ==
    (/\ distPc = "done"
     /\ distArgs.type \in {"normal", "uniform", "exponential", "laplace"}
     /\ distArgs.spread > 0) => distResult.k = "fin"

\* C25: in the application, whenever no click handler is waiting for
\* initOnce(), state.playing is true exactly when the engine has a
\* registered tick timer; clicks during initialisation and a browser
\* without an audio context are included.
C25_PlayingIffTimer ==
    initPc \notin {"synth", "decode"} => (playing <=> timers # {})

\* the claps of the last tick, played or skipped, that belong to the beat
\* at beatTime
ClapsOfBeat(beatTime) ==
    Cardinality({i \in DOMAIN tickSink : tickSink[i].clap.beatTime = beatTime})
    + Cardinality({i \in DOMAIN tickDropped : tickDropped[i].clap.beatTime = beatTime})

\* C27: whenever a tick runs scheduleBeat, the pool holds exactly
\* clapperCount persons; a beat of a crowd up to the threshold takes exactly
\* clapperCount persons through the person loop and a beat of a larger crowd
\* takes the sample drawn from the pool of clapperCount persons.
C27_PoolMatchesCrowd ==
    (lastOp = "tick" /\ tickBeats # <<>>) =>
        /\ Len(persons) = clapperCount
        /\ \A b \in DOMAIN tickBeats :
              ClapsOfBeat(tickBeats[b].beatTime) =
                  IF clapperCount <= LOD_CLAPPER_THRESHOLD
                  THEN clapperCount
                  ELSE Min(LOD_SAMPLE_COUNT, clapperCount)

\* C27 witness: the log holds a clap of the second person of a small crowd,
\* and the last tick scheduled a later beat for a crowd above the threshold:
\* the slider was moved between the two beats of one run.
C27_Witness ==
    /\ lastOp = "tick"
    /\ tickBeats # <<>>
    /\ clapperCount > LOD_CLAPPER_THRESHOLD
    /\ \E i \in DOMAIN clapEvents :
          /\ clapEvents[i].personIndex = 1
          /\ clapEvents[i].beatTime < tickBeats[1].beatTime

\* the position of the drain loop when the last tick entered it
TickEntryBeatTime == IF tickBeats = <<>> THEN nextBeatTime ELSE tickBeats[1].beatTime

\* ceil(q / d) for q > 0, and 0 otherwise
CeilDivOrZero(q, d) == IF q > 0 THEN (q + d - 1) \div d ELSE 0

\* C29: the drain loop of a tick terminates (it is left with the position at
\* or beyond the end of the lookahead window, one interval per beat), and
\* the beats it schedules number at most
\* ceil((clockNow + lookahead - nextBeatTime) / beatInterval) when that
\* quantity is positive, and 0 otherwise.
C29_DrainBounded ==
    lastOp = "tick" =>
        /\ nextBeatTime >= clock + LOOKAHEAD_MS
        /\ nextBeatTime = TickEntryBeatTime + Len(tickBeats) * (60000 \div bpm)
        /\ Len(tickBeats) <=
              CeilDivOrZero(clock + LOOKAHEAD_MS - TickEntryBeatTime, 60000 \div bpm)

\* C29 witness: after a stall one tick scheduled two beats, as many as the
\* bound allows
C29_Witness ==
    /\ lastOp = "tick"
    /\ Len(tickBeats) = 2
    /\ CeilDivOrZero(clock + LOOKAHEAD_MS - TickEntryBeatTime, 60000 \div bpm) = 2

\* C26: every event logged during a run is counted into the histogram
\* exactly once: when a draw callback has returned, the histogram holds as
\* many counts as events were logged, also across a trim of the log.
C26_HistogramCountsEveryEvent ==
    lastOp = "draw" => histogramTotal = loggedTotal

====
